---- MODULE Spec2Model ----
(***************************************************************************)
(* Model of tree-sitter-thorn/bindings/node/binding.cc: the Node addon     *)
(* whose module initialiser Init publishes the grammar name and an opaque  *)
(* handle to the grammar table.  Init is modelled statement by statement;  *)
(* the addon may be loaded by several environments (main thread, workers), *)
(* each running Init on exports objects of its own, all of them sharing    *)
(* the one static grammar table behind tree_sitter_thorn().                *)
(***************************************************************************)
EXTENDS Integers, FiniteSets, Sequences, TLC

\* ---- bounds of the model ----
NumEnvs == 2        \* environments that load the addon
NumObjects == 2     \* exports objects that exist in the process
MaxCalls == 2       \* invocations of Init per environment

Envs == 1..NumEnvs
Objects == 1..NumObjects

\* every JS object belongs to one environment
Owner(o) == ((o - 1) % NumEnvs) + 1

\* ---- addresses ----
NullAddr == 0
LanguageAddr == 1   \* the static TSLanguage of the generated parser
ScratchAddr == 2    \* any other address of the process
Addrs == {NullAddr, LanguageAddr, ScratchAddr}

\* ---- the grammar table ----
EngineVersion == 14
Versions == {EngineVersion, EngineVersion + 1}
ParseStates == {0, 1}
Symbols == {"end", "let"}
ActionTable ==
  [p \in ParseStates \X Symbols |->
     IF p[2] = "let" THEN (IF p[1] = 0 THEN "shift" ELSE "reduce")
     ELSE (IF p[1] = 0 THEN "error" ELSE "accept")]
NoTable == [version |-> 0, actions |-> [p \in ParseStates \X Symbols |-> "error"]]
TableImage(v) == [version |-> v, actions |-> ActionTable]

\* extern "C" TSLanguage *tree_sitter_thorn();
tree_sitter_thorn == LanguageAddr

\* ---- JS values ----
Absent == [kind |-> "absent", str |-> "", env |-> 0, serial |-> 0, data |-> NullAddr]
StringNew(s) == [kind |-> "string", str |-> s, env |-> 0, serial |-> 0, data |-> NullAddr]
ExternalNew(e, n, p) == [kind |-> "external", str |-> "", env |-> e, serial |-> n, data |-> p]

Keys == {"name", "language", "other"}
EmptyObject == [k \in Keys |-> Absent]
\* contents an exports object can have when Init receives it
PreStates ==
  { EmptyObject,
    [EmptyObject EXCEPT !["other"] = StringNew("keep")],
    [k \in Keys |-> IF k = "other" THEN StringNew("keep") ELSE StringNew("old")] }

NoResult == [kind |-> "none", obj |-> 0, error |-> ""]
Returned(o) == [kind |-> "object", obj |-> o, error |-> ""]
Failed(msg) == [kind |-> "error", obj |-> 0, error |-> msg]

VARIABLES
  pc,          \* per environment: position inside Init, or "idle"
  exportsArg,  \* per environment: the exports parameter of the running call
  language,    \* per environment: the local variable of line 11
  result,      \* per environment: what the last call of Init gave back
  calls,       \* per environment: number of calls of Init started
  heap,        \* contents of every exports object
  mem,         \* process memory: what lives at each address
  handles,     \* every external handle created so far
  seen,        \* per environment: table image read through the handle
  atCall,      \* history: contents of exportsArg when the call started
  again,       \* history: the running call is a repeat on its object
  initialised  \* history: objects a completed Init has been run on

vars == <<pc, exportsArg, language, result, calls, heap, mem, handles, seen,
          atCall, again, initialised>>

Init ==
  /\ pc = [e \in Envs |-> "idle"]
  /\ exportsArg = [e \in Envs |-> 0]
  /\ language = [e \in Envs |-> NullAddr]
  /\ result = [e \in Envs |-> NoResult]
  /\ calls = [e \in Envs |-> 0]
  /\ heap \in [Objects -> PreStates]
  /\ \E v \in Versions :
       mem = [a \in Addrs |-> IF a = LanguageAddr THEN TableImage(v) ELSE NoTable]
  /\ handles = {}
  /\ seen = [e \in Envs |-> NoTable]
  /\ atCall = [e \in Envs |-> EmptyObject]
  /\ again = [e \in Envs |-> FALSE]
  /\ initialised = {}

\* NODE_API_MODULE(tree_sitter_thorn_binding, Init): the host calls Init
\* with an exports object of the loading environment.
Call(e, o) ==
  /\ pc[e] = "idle"
  /\ calls[e] < MaxCalls
  /\ Owner(o) = e
  /\ pc' = [pc EXCEPT ![e] = "line10"]
  /\ exportsArg' = [exportsArg EXCEPT ![e] = o]
  /\ calls' = [calls EXCEPT ![e] = @ + 1]
  /\ result' = [result EXCEPT ![e] = NoResult]
  /\ atCall' = [atCall EXCEPT ![e] = heap[o]]
  /\ again' = [again EXCEPT ![e] = (o \in initialised)]
  /\ UNCHANGED <<language, heap, mem, handles, seen, initialised>>

\* Variant of line 10 that installs a new object's contents instead of
\* setting one property of the object it was given.
Line10_replace(e) ==
  /\ pc[e] = "line10"
  /\ heap' = [heap EXCEPT ![exportsArg[e]] =
                [EmptyObject EXCEPT !["name"] = StringNew("thorn")]]
  /\ pc' = [pc EXCEPT ![e] = "line11"]
  /\ UNCHANGED <<exportsArg, language, result, calls, mem, handles, seen,
                 atCall, again, initialised>>

\* Variant of line 10 that sets "name" only when the object has none.
Line10_ifAbsent(e) ==
  /\ pc[e] = "line10"
  /\ heap' = [heap EXCEPT ![exportsArg[e]]["name"] =
                IF @.kind = "absent" THEN StringNew("thorn") ELSE @]
  /\ pc' = [pc EXCEPT ![e] = "line11"]
  /\ UNCHANGED <<exportsArg, language, result, calls, mem, handles, seen,
                 atCall, again, initialised>>

\* exports["name"] = Napi::String::New(env, "thorn");
Line10(e) ==
  /\ pc[e] = "line10"
  /\ heap' = [heap EXCEPT ![exportsArg[e]]["name"] = StringNew("thorn")]
  /\ pc' = [pc EXCEPT ![e] = "line11"]
  /\ UNCHANGED <<exportsArg, language, result, calls, mem, handles, seen,
                 atCall, again, initialised>>

\* auto language = reinterpret_cast<void *>(tree_sitter_thorn());
Line11(e) ==
  /\ pc[e] = "line11"
  /\ language' = [language EXCEPT ![e] = tree_sitter_thorn]
  /\ pc' = [pc EXCEPT ![e] = "line12"]
  /\ UNCHANGED <<exportsArg, result, calls, heap, mem, handles, seen,
                 atCall, again, initialised>>

\* Variant of line 12 that wraps the address of the local variable
\* instead of its value.
Line12_addrOfLocal(e) ==
  /\ pc[e] = "line12"
  /\ LET h == ExternalNew(e, calls[e], ScratchAddr)
     IN /\ heap' = [heap EXCEPT ![exportsArg[e]]["language"] = h]
        /\ handles' = handles \cup {h}
  /\ pc' = [pc EXCEPT ![e] = "line13"]
  /\ UNCHANGED <<exportsArg, language, result, calls, mem, seen,
                 atCall, again, initialised>>

\* Variant of line 12 that checks the table's version tag before it
\* exports the handle and fails the load on a mismatch.
Line12_versionChecked(e) ==
  /\ pc[e] = "line12"
  /\ IF mem[language[e]].version = EngineVersion
     THEN LET h == ExternalNew(e, calls[e], language[e])
          IN /\ heap' = [heap EXCEPT ![exportsArg[e]]["language"] = h]
             /\ handles' = handles \cup {h}
             /\ pc' = [pc EXCEPT ![e] = "line13"]
             /\ UNCHANGED result
     ELSE /\ result' = [result EXCEPT ![e] = Failed("TableVersionMismatch")]
          /\ pc' = [pc EXCEPT ![e] = "idle"]
          /\ UNCHANGED <<heap, handles>>
  /\ UNCHANGED <<exportsArg, language, calls, mem, seen,
                 atCall, again, initialised>>

\* exports["language"] = Napi::External<void>::New(env, language);
Line12(e) ==
  /\ pc[e] = "line12"
  /\ LET h == ExternalNew(e, calls[e], language[e])
     IN /\ heap' = [heap EXCEPT ![exportsArg[e]]["language"] = h]
        /\ handles' = handles \cup {h}
  /\ pc' = [pc EXCEPT ![e] = "line13"]
  /\ UNCHANGED <<exportsArg, language, result, calls, mem, seen,
                 atCall, again, initialised>>

\* return exports;
Line13(e) ==
  /\ pc[e] = "line13"
  /\ result' = [result EXCEPT ![e] = Returned(exportsArg[e])]
  /\ initialised' = initialised \cup {exportsArg[e]}
  /\ pc' = [pc EXCEPT ![e] = "idle"]
  /\ UNCHANGED <<exportsArg, language, calls, heap, mem, handles, seen,
                 atCall, again>>

\* The Parser Core of the host dereferences the handle it finds on an
\* exports object and reads the grammar table behind it.
UseLanguage(e, o) ==
  /\ pc[e] = "idle"
  /\ Owner(o) = e
  /\ heap[o]["language"].kind = "external"
  /\ seen' = [seen EXCEPT ![e] = mem[heap[o]["language"].data]]
  /\ UNCHANGED <<pc, exportsArg, language, result, calls, heap, mem, handles,
                 atCall, again, initialised>>

Next ==
  \/ \E e \in Envs, o \in Objects : Call(e, o)
  \/ \E e \in Envs : Line10(e)
  \/ \E e \in Envs : Line11(e)
  \/ \E e \in Envs : Line12(e)
  \/ \E e \in Envs : Line13(e)
  \/ \E e \in Envs, o \in Objects : UseLanguage(e, o)

Spec == Init /\ [][Next]_vars

TypeOK ==
  /\ pc \in [Envs -> {"idle", "line10", "line11", "line12", "line13"}]
  /\ exportsArg \in [Envs -> 0..NumObjects]
  /\ language \in [Envs -> Addrs]
  /\ calls \in [Envs -> 0..MaxCalls]
  /\ initialised \subseteq Objects

\* ---- properties ----

\* Init has been called in environment e and has come back
Completed(e) == pc[e] = "idle" /\ calls[e] > 0

Mismatched == mem[LanguageAddr].version # EngineVersion

\* C1: once Init has completed, it has returned an exports object on which
\* "name" is the string "thorn" and "language" is an external handle that
\* wraps exactly the pointer returned by tree_sitter_thorn(); no completed
\* call leaves either entry out.
C1_InitExportsBoth ==
  \A e \in Envs :
    Completed(e) =>
      /\ result[e].kind = "object"
      /\ result[e].obj \in Objects
      /\ heap[result[e].obj]["name"] = StringNew("thorn")
      /\ heap[result[e].obj]["language"].kind = "external"
      /\ heap[result[e].obj]["language"].data = tree_sitter_thorn

\* C1 witness: a call has completed on an object that came in with stale
\* "name" and "language" entries.
C1_Witness ==
  \E e \in Envs :
    /\ Completed(e)
    /\ atCall[e]["name"] = StringNew("old")
    /\ atCall[e]["language"] = StringNew("old")

\* C2: every language handle handed out so far, by whichever environment
\* and call, refers to the one grammar table, every table image read
\* through a handle is that table, and no step changes the table.
C2_HandleStable ==
  /\ [](\A h \in handles : h.data = LanguageAddr)
  /\ [](\A e \in Envs : seen[e] \in {NoTable, mem[LanguageAddr]})
  /\ [][mem' = mem]_vars

\* C2 witness: handles exist from two environments and from two calls of
\* one environment, and the table has been read through a handle.
C2_Witness ==
  /\ \E h1, h2 \in handles : h1.env # h2.env
  /\ \E h1, h2 \in handles : h1.env = h2.env /\ h1.serial # h2.serial
  /\ \E e \in Envs : seen[e] = mem[LanguageAddr]

C10_Frame ==
  \A e \in Envs :
    /\ (pc[e] # "idle") =>
         \A k \in Keys \ {"name", "language"} :
           heap[exportsArg[e]][k] = atCall[e][k]
    /\ Completed(e) =>
         /\ result[e] = Returned(exportsArg[e])
         /\ \A k \in Keys \ {"name", "language"} :
              heap[exportsArg[e]][k] = atCall[e][k]
         /\ again[e] =>
              /\ heap[exportsArg[e]]["name"] = atCall[e]["name"]
              /\ atCall[e]["language"].kind = "external"
              /\ heap[exportsArg[e]]["language"].kind = "external"
              /\ heap[exportsArg[e]]["language"].data = atCall[e]["language"].data

\* C10 witness: a repeated call has completed on an object holding another
\* entry, and the handle it left is a new one.
C10_Witness ==
  \E e \in Envs :
    /\ Completed(e)
    /\ again[e]
    /\ atCall[e]["other"] = StringNew("keep")
    /\ heap[exportsArg[e]]["language"] # atCall[e]["language"]
====
